---- MODULE Spec2Model ----
(***************************************************************************)
(* A model of the two orchestration flows of the nais command line tool:   *)
(*   - package debug   (Debug.Debug and the functions it calls)            *)
(*   - package migrate (Migrator.Setup and Migrator.doSpinner)             *)
(* Strings that the code builds with fmt.Sprintf are sequences of tokens:  *)
(* literal pieces of the format and the values of its arguments.           *)
(***************************************************************************)
EXTENDS Integers, Sequences, FiniteSets, TLC

(***************************************************************************)
(* Bounds of the model.                                                    *)
(***************************************************************************)
\* time.Sleep returns after at least the duration: up to MaxJitter seconds late
MaxJitter == 1
\* the largest number of ephemeral containers a fetched pod carries
MaxEphemeral == 2
\* invocations of the debug command against the same cluster
MaxInvocations == 2
\* invocations of the migrate setup command against the same cluster
MaxSetups == 2
\* the largest number of migration ConfigMaps in the cluster
MaxMarkers == 1

(***************************************************************************)
(* package debug: constants                                                *)
(***************************************************************************)
debuggerSuffix == "nais-debugger"

debuggerContainerDefaultName == "debugger"

maxRetries == 6

pollInterval == 5

\* the name of the workload (cfg.WorkloadName); it is also the name of the
\* workload's own container in each of its pods
WorkloadName == "myapp"

PodNames == {"pod-a", "pod-b"}

\* what a List request can return as Items: the pods in some order
PodLists == {<<>>, <<"pod-a">>, <<"pod-b">>, <<"pod-a", "pod-b">>, <<"pod-b", "pod-a">>}

PrimarySelector == <<"app.kubernetes.io/name=", WorkloadName>>

FallbackSelector == <<"app=", WorkloadName>>

\* results of a List request: lst is the returned *PodList (nil is possible
\* only together with an error and depends on the client implementation)
ListResults ==
    {[isNil |-> FALSE, Items |-> l, err |-> FALSE] : l \in PodLists}
    \cup {[isNil |-> n, Items |-> <<>>, err |-> TRUE] : n \in BOOLEAN}

debuggerContainerName(podName) == <<podName, "-", debuggerSuffix>>

CopyNames == {debuggerContainerName(p) : p \in PodNames}

(***************************************************************************)
(* Errors of exec.Cmd.Wait: nil for exit status 0, an ExitError whose text *)
(* is "exit status N", or another error (the child was killed by a signal) *)
(***************************************************************************)
ExitStatuses == {0, 1, 2, 10}

WaitOutcomes == [exited : {TRUE}, status : ExitStatuses]
                \cup {[exited |-> FALSE, status |-> 0]}

Success(w) == w.exited /\ w.status = 0

DigitChars == <<"0", "1", "2", "3", "4", "5", "6", "7", "8", "9">>

RECURSIVE Digits(_)
Digits(n) == IF n < 10 THEN <<DigitChars[n + 1]>>
             ELSE Digits(n \div 10) \o <<DigitChars[(n % 10) + 1]>>

\* err.Error() of the error Wait returns (for a non-nil error)
WaitErrorText(w) == IF w.exited THEN <<"exit status ">> \o Digits(w.status)
                    ELSE <<"signal: killed">>

\* strings.Contains on token sequences
Contains(s, sub) ==
    \E k \in 1..(Len(s) - Len(sub) + 1) : SubSeq(s, k, k + Len(sub) - 1) = sub

(***************************************************************************)
(* package migrate: values                                                 *)
(***************************************************************************)
AppNames == {"app-a", "app-b"}

Namespaces == {"team-a", "team-b"}

\* what Resolve can leave in InstanceName
InstanceNames == {"", "db-old", "db-new"}

ProjectIds == {"proj-1", "proj-2"}

CommandSetup == "setup"

\* fmt.Sprintf for formats whose only verb is %s: the k-th verb is replaced
\* by the text of the k-th argument; a missing argument prints as %!s(MISSING)
RECURSIVE Sprintf(_, _)
Sprintf(format, args) ==
    IF format = <<>> THEN <<>>
    ELSE IF Head(format) = "%s"
           THEN IF args = <<>>
                  THEN <<"%!s(MISSING)">> \o Sprintf(Tail(format), args)
                  ELSE Head(args) \o Sprintf(Tail(format), Tail(args))
           ELSE <<Head(format)>> \o Sprintf(Tail(format), args)

\* lines 13-31
SetupSuccessMessage ==
    <<"\nMigration setup has been started successfully.\n\nTo monitor the migration, run the following command:\n\tkubectl logs -f -l ",
      "%s", " -n ", "%s",
      "\n\nThe setup will take some time to complete, you can check completion status with the following command:\n\tkubectl get job ",
      "%s", " -n ", "%s",
      "\n\nWhen setup is complete, a new instance has been created and replication of data has started.\nYou can check the replication progress in the Google Cloud Console:\n\t",
      "%s",
      "\n\nWhen the migration has Status Running and is in the CDC or Ready to Promote phase,\nyou can proceed with the next step of the migration:\n\tnais postgres migrate promote ",
      "%s", " ", "%s", " ", "%s",
      "\n\nBe aware that during promotion (the next step), your instance will be unavailable for some time.\n">>

\* line 120: the format of the console URL
CloudConsoleUrlFormat ==
    <<"https://console.cloud.google.com/dbmigration/migrations/locations/europe-north1/instances/",
      "%s", "-", "%s", "?project=", "%s">>

\* Migrator.kubectlLabelSelector: the label selector of the pods of a command
kubectlLabelSelector(appName, command) ==
    <<"migrator.nais.io/migration-name=migration-", appName,
      ",migrator.nais.io/command=", command>>

\* strings.TrimSpace on a sequence of characters
RECURSIVE TrimLeft(_)
TrimLeft(t) == IF t # <<>> /\ Head(t) \in {" ", "\n", "\t"} THEN TrimLeft(Tail(t)) ELSE t

RECURSIVE TrimRight(_)
TrimRight(t) == IF t # <<>> /\ t[Len(t)] \in {" ", "\n", "\t"}
                  THEN TrimRight(SubSeq(t, 1, Len(t) - 1)) ELSE t

TrimSpace(t) == TrimRight(TrimLeft(t))

\* what the user can type at the prompt
Inputs == {<<"y">>, <<"Y">>, <<" ", "y", "\n">>, <<>>, <<"n">>, <<"y", "e", "s">>}

\* confirmContinue: only the trimmed input y or Y continues
confirmContinue(input) ==
    IF TrimSpace(input) \in {<<"y">>, <<"Y">>} THEN <<>> ELSE <<"cancelled by user">>

\* a variant of ValidateInstanceNames that checks the target name first
ValidateInstanceNames_targetFirst(sourceInstanceName, targetInstanceName) ==
    IF targetInstanceName = "" THEN <<"target instance name is required">>
    ELSE IF sourceInstanceName = "" THEN <<"source instance name is empty">>
    ELSE IF sourceInstanceName = targetInstanceName
           THEN <<"source and target instance names cannot be the same">>
    ELSE <<>>

\* a variant of ValidateInstanceNames without the comparison of the two names
ValidateInstanceNames_noCompare(sourceInstanceName, targetInstanceName) ==
    IF sourceInstanceName = "" THEN <<"source instance name is empty">>
    ELSE IF targetInstanceName = "" THEN <<"target instance name is required">>
    ELSE <<>>

\* lines 62-74: the three checks of the instance names, in the order of the code
ValidateInstanceNames(sourceInstanceName, targetInstanceName) ==
    IF sourceInstanceName = "" THEN <<"source instance name is empty">>
    ELSE IF targetInstanceName = "" THEN <<"target instance name is required">>
    ELSE IF sourceInstanceName = targetInstanceName
           THEN <<"source and target instance names cannot be the same">>
    ELSE <<>>

\* line 133: the number of status lines the goroutine sends
spinnerIterations == 50

\* line 134: rand.IntnRange(5, 10) is in [5, 10); the model draws the least and
\* the greatest of these delays
Delays == {5, 9}

\* line 159: rand.IntnRange(1, 3) is in [1, 3)
Severities == 1..2

\* line 136
StatusLine(delay) ==
    <<"Migration setup is still running, waited ">> \o Digits(delay) \o <<" seconds">>

VARIABLES
    \* ---- package debug ----
    cfg,          \* Config: CopyPod, ByPod
    dpc,          \* position of the invocation in Debug and its callees
    podList,      \* getPodsForWorkload: podList
    listErr,      \* getPodsForWorkload: err
    pods,         \* Debug: podNames
    podName,      \* Debug: podName
    i,            \* debugPod: loop counter
    pod,          \* debugPod: the pod fetched last
    dpErr,        \* value returned by debugPod
    dresult,      \* value returned by Debug
    clock,        \* seconds since the invocation began
    copies,       \* cluster: names of the existing pod copies
    runningCopies,\* cluster: copies whose debugger container is Running
    invocation,   \* number of the current invocation
    \* history of the current invocation
    listLog,      \* List requests made: selector and result
    getLog,       \* names of the pods fetched by Get
    pollObs,      \* what each readiness poll saw
    lastPoll,     \* clock at the last readiness poll
    sleeps,       \* number of Sleep calls
    launches,     \* cmd.Start calls
    copyLookup,   \* outcome of the first lookup of the copy
    waits,        \* what cmd.Wait returned
    out,          \* messages printed
    copyMadeFor,  \* cluster: pods whose copy a create --copy-to has made
    lookupSawMade,\* the copy of podName was made when it was looked up
    \* ---- package migrate ----
    scfg,         \* Migrator.cfg: AppName, Namespace; and the argument wait
    spc,          \* position of the invocation in Setup and doSpinner
    markers,      \* cluster: the migration ConfigMaps, by app and namespace
    bindings,     \* cluster: the RoleBindings of migrations
    jobs,         \* cluster: the migration jobs
    Target,       \* cfg.Target.InstanceName
    Source,       \* cfg.Source.InstanceName
    gcpProjectId, \* Setup: gcpProjectId
    ptermFailed,  \* Setup: ptermFailed
    serr,         \* value returned by Setup
    calls,        \* the calls Setup has made, with their success
    printed,      \* what Setup has written to standard output
    sinvocation,  \* number of the current invocation
    gpc,          \* position of the goroutine of doSpinner
    gi,           \* goroutine: i
    delay,        \* goroutine: delay
    closed,       \* logStatements is closed
    prevLog,      \* doSpinner: prevLog
    spinnerText,  \* text of the spinner
    logCount,     \* number of lines logged by logOutput
    lastLog,      \* the line logged last, with its severity
    repeatOfSuccess \* this Setup follows one that returned nil for the same app and namespace

dvars == <<cfg, dpc, podList, listErr, pods, podName, i, pod, dpErr, dresult, clock,
           copies, runningCopies, invocation, listLog, getLog, pollObs, lastPoll,
           sleeps, launches, copyLookup, waits, out, copyMadeFor, lookupSawMade>>

svars == <<scfg, spc, markers, bindings, jobs, Target, Source, gcpProjectId,
           ptermFailed, serr, calls, printed, sinvocation, gpc, gi, delay, closed,
           prevLog, spinnerText, logCount, lastLog, repeatOfSuccess>>

\* the cluster objects of migrations
scluster == <<markers, bindings, jobs>>

\* the state of the progress mechanism
spinner == <<gpc, gi, delay, closed, prevLog, spinnerText, logCount, lastLog>>

vars == <<dvars, svars>>

NoErr == "nil"

NoPod == [found |-> FALSE, EphemeralContainers |-> 0, ContainerStatuses |-> <<>>]

DebugLocals ==
    /\ dpc = "listPrimary"
    /\ podList = [isNil |-> TRUE, Items |-> <<>>]
    /\ listErr = FALSE
    /\ pods = <<>>
    /\ podName = ""
    /\ i = 0
    /\ pod = NoPod
    /\ dpErr = NoErr
    /\ dresult = "none"
    /\ listLog = <<>>
    /\ getLog = <<>>
    /\ pollObs = <<>>
    /\ lastPoll = 0
    /\ sleeps = 0
    /\ launches = <<>>
    /\ copyLookup = "none"
    /\ waits = <<>>
    /\ out = {}
    /\ lookupSawMade = FALSE

NoLog == [severity |-> 0, text |-> <<>>]

SetupLocals ==
    /\ spc = "start"
    /\ Target = ""
    /\ Source = ""
    /\ gcpProjectId = ""
    /\ ptermFailed = FALSE
    /\ serr = <<>>
    /\ calls = <<>>
    /\ printed = <<>>
    /\ gpc = "none"
    /\ gi = 0
    /\ delay = 0
    /\ closed = FALSE
    /\ prevLog = <<>>
    /\ spinnerText = <<>>
    /\ logCount = 0
    /\ lastLog = NoLog
    /\ repeatOfSuccess = FALSE

\* no migration command is running
SetupIdle ==
    /\ scfg = [AppName |-> "app-a", Namespace |-> "team-a", wait |-> FALSE]
    /\ SetupLocals
    /\ markers = {}
    /\ bindings = {}
    /\ jobs = {}
    /\ sinvocation = 0

\* no debug command is running
DebugIdle ==
    /\ cfg = [CopyPod |-> FALSE, ByPod |-> FALSE]
    /\ DebugLocals
    /\ clock = 0
    /\ copies = {}
    /\ runningCopies = {}
    /\ copyMadeFor = {}
    /\ invocation = 0

InitDebug ==
    /\ cfg \in [CopyPod : BOOLEAN, ByPod : BOOLEAN]
    /\ DebugLocals
    /\ clock = 0
    /\ copies \in SUBSET CopyNames
    /\ runningCopies \in SUBSET copies
    /\ copyMadeFor = {}
    /\ invocation = 1
    /\ SetupIdle

(***************************************************************************)
(* package debug: getPodsForWorkload                                       *)
(***************************************************************************)
\* a variant of NeedsFallback that queries the fallback whatever the first list holds
NeedsFallback_always(pl) == TRUE

\* line 54: the fallback selector is tried when the first list is empty
NeedsFallback(pl) == Len(pl.Items) = 0

\* lines 51-54: the List request with the primary selector; len(podList.Items)
\* dereferences podList, which panics when the client returned nil
getPodsForWorkload_ListPrimary ==
    /\ dpc = "listPrimary"
    /\ \E r \in ListResults :
        /\ listLog' = Append(listLog, [selector |-> PrimarySelector, result |-> r])
        /\ podList' = [isNil |-> r.isNil, Items |-> r.Items]
        /\ listErr' = r.err
        /\ IF r.isNil
             THEN dpc' = "done" /\ dresult' = "panic"
             ELSE /\ dresult' = dresult
                  /\ dpc' = IF NeedsFallback(r) THEN "listFallback" ELSE "getPodsReturn"
    /\ out' = out \cup {"Fetching workload..."}
    /\ UNCHANGED <<cfg, pods, podName, i, pod, dpErr, clock, copies, runningCopies,
                   invocation, getLog, pollObs, lastPoll, sleeps, launches,
                   copyLookup, waits>>
    /\ UNCHANGED <<copyMadeFor, lookupSawMade>>
    /\ UNCHANGED svars

\* lines 55-57: the List request with the fallback selector overwrites both
\* podList and err
getPodsForWorkload_ListFallback ==
    /\ dpc = "listFallback"
    /\ \E r \in ListResults :
        /\ listLog' = Append(listLog, [selector |-> FallbackSelector, result |-> r])
        /\ podList' = [isNil |-> r.isNil, Items |-> r.Items]
        /\ listErr' = r.err
    /\ dpc' = "getPodsReturn"
    /\ UNCHANGED <<cfg, pods, podName, i, pod, dpErr, dresult, clock, copies,
                   runningCopies, invocation, getLog, pollObs, lastPoll, sleeps,
                   launches, out,
                   copyLookup, waits>>
    /\ UNCHANGED <<copyMadeFor, lookupSawMade>>
    /\ UNCHANGED svars

(***************************************************************************)
(* package debug: Debug                                                    *)
(***************************************************************************)
\* lines 216-219: what Debug returns when no pod was found
NoPodsResult_err == "err"

NoPodsResult == "nil"

\* lines 59-62 and 206-219: getPodsForWorkload returns; Debug returns the error,
\* or returns nil when there is no pod
Debug_GetPods ==
    /\ dpc = "getPodsReturn"
    /\ IF listErr
         THEN dresult' = "err" /\ dpc' = "done" /\ UNCHANGED <<pods, out>>
         ELSE /\ pods' = podList.Items
              /\ IF Len(podList.Items) = 0
                   THEN /\ out' = out \cup {"No pods found."}
                        /\ dresult' = NoPodsResult
                        /\ dpc' = "done"
                   ELSE dpc' = "select" /\ UNCHANGED <<dresult, out>>
    /\ UNCHANGED <<cfg, podList, listErr, podName, i, pod, dpErr, clock, copies,
                   runningCopies, invocation, listLog, getLog, pollObs, lastPoll,
                   sleeps, launches,
                   copyLookup, waits>>
    /\ UNCHANGED <<copyMadeFor, lookupSawMade>>
    /\ UNCHANGED svars

\* lines 221-229: the first pod, or the one chosen at the prompt
Debug_SelectPod ==
    /\ dpc = "select"
    /\ \/ /\ ~cfg.ByPod
          /\ podName' = pods[1]
          /\ dpc' = IF cfg.CopyPod THEN "getCopy" ELSE "getPod"
          /\ UNCHANGED <<dresult, out>>
       \/ /\ cfg.ByPod
          /\ \E k \in 1..Len(pods) :
                podName' = pods[k]
          /\ dpc' = IF cfg.CopyPod THEN "getCopy" ELSE "getPod"
          /\ UNCHANGED <<dresult, out>>
       \/ /\ cfg.ByPod
          /\ out' = out \cup {"Prompt failed"}
          /\ dresult' = "err"
          /\ dpc' = "done"
          /\ UNCHANGED podName
    /\ UNCHANGED <<cfg, podList, listErr, pods, i, pod, dpErr, clock, copies,
                   runningCopies, invocation, listLog, getLog, pollObs, lastPoll,
                   sleeps, launches,
                   copyLookup, waits>>
    /\ UNCHANGED <<copyMadeFor, lookupSawMade>>
    /\ UNCHANGED svars

\* lines 231-235: the error of debugPod is printed, and Debug returns nil
DebugResult(e) == "nil"

Debug_Return ==
    /\ dpc = "debugReturn"
    /\ out' = IF dpErr # NoErr THEN out \cup {"Failed to debug pod"} ELSE out
    /\ dresult' = DebugResult(dpErr)
    /\ dpc' = "done"
    /\ UNCHANGED <<cfg, podList, listErr, pods, podName, i, pod, dpErr, clock, copies,
                   runningCopies, invocation, listLog, getLog, pollObs, lastPoll,
                   sleeps, launches,
                   copyLookup, waits>>
    /\ UNCHANGED <<copyMadeFor, lookupSawMade>>
    /\ UNCHANGED svars

(***************************************************************************)
(* The cluster, as the Get requests of debugPod see it                     *)
(***************************************************************************)
\* outcomes of Get for the copy named n: the pod, NotFound, or another error
GetOutcomes(n) == (IF n \in copies THEN {"ok"} ELSE {"notfound"}) \cup {"error"}

\* the pod copy as Get returns it: the workload's container and the debugger
CopySnapshot(n, appRunning) ==
    [found |-> TRUE, EphemeralContainers |-> 0,
     ContainerStatuses |->
        <<[Name |-> WorkloadName, Running |-> appRunning],
          [Name |-> "debugger", Running |-> n \in runningCopies]>>]

\* the container named 'debugger' of the fetched pod reports Running
DebuggerReportsRunning(p) ==
    \E k \in 1..Len(p.ContainerStatuses) :
        p.ContainerStatuses[k] = [Name |-> "debugger", Running |-> TRUE]

Env_ContainerStarts ==
    /\ \E n \in copies \ runningCopies : runningCopies' = runningCopies \cup {n}
    /\ UNCHANGED <<cfg, dpc, podList, listErr, pods, podName, i, pod, dpErr, dresult,
                   clock, copies, invocation, listLog, getLog, pollObs, lastPoll,
                   sleeps, launches, out,
                   copyLookup, waits>>
    /\ UNCHANGED <<copyMadeFor, lookupSawMade>>
    /\ UNCHANGED svars

Env_CopyRemoved ==
    /\ \E n \in copies :
        /\ copies' = copies \ {n}
        /\ copyMadeFor' = copyMadeFor \ {n[1]}
        /\ runningCopies' = runningCopies \ {n}
    /\ UNCHANGED <<cfg, dpc, podList, listErr, pods, podName, i, pod, dpErr, dresult,
                   clock, invocation, listLog, getLog, pollObs, lastPoll, sleeps,
                   launches, out,
                   copyLookup, waits>>
    /\ UNCHANGED lookupSawMade
    /\ UNCHANGED svars

(***************************************************************************)
(* package debug: debugPod                                                 *)
(***************************************************************************)
\* a variant of ContainerIsRunning that misses a Running debugger at the first pass
ContainerIsRunning_late(p) ==
    /\ i > 0
    /\ \E k \in 1..Len(p.ContainerStatuses) :
        /\ p.ContainerStatuses[k].Name = debuggerContainerDefaultName
        /\ p.ContainerStatuses[k].Running

\* lines 87-88: some container status is the debugger's and is Running
ContainerIsRunning(p) ==
    \E k \in 1..Len(p.ContainerStatuses) :
        /\ p.ContainerStatuses[k].Name = debuggerContainerDefaultName
        /\ p.ContainerStatuses[k].Running

\* a variant of MayPoll that gives up one poll early
MayPoll_short(n) == n < maxRetries - 1

\* line 80: the loop condition
MayPoll(n) == n < maxRetries

\* line 93: time.Sleep(pollInterval seconds) returns no earlier than that
SleepTimes == {pollInterval + j : j \in 0..MaxJitter}

\* a variant of HasEphemeralContainers that tolerates one ephemeral container
HasEphemeralContainers_two(p) == p.EphemeralContainers > 1

\* line 107
HasEphemeralContainers(p) == p.EphemeralContainers > 0

\* a variant of IsNotFound that takes every error for NotFound
IsNotFound_any(o) == TRUE

\* line 98: k8serrors.IsNotFound
IsNotFound(o) == o = "notfound"

\* lines 73-77 and 98-100: copy mode, the lookup of the copy
debugPod_GetCopy ==
    /\ dpc = "getCopy"
    /\ LET pN == debuggerContainerName(podName) IN
       /\ getLog' = Append(getLog, pN)
       /\ \E o \in GetOutcomes(pN) :
            /\ copyLookup' = o
            /\ lookupSawMade' = (podName \in copyMadeFor)
            /\ IF o = "ok"
                 THEN /\ out' = out \cup {"already exists, trying to attach..."}
                      /\ i' = 0
                      /\ dpc' = "poll"
                      /\ dpErr' = dpErr
                 ELSE IF ~IsNotFound(o)
                        THEN /\ dpErr' = "failed to check for existing debug pod copy"
                             /\ dpc' = "debugReturn"
                             /\ UNCHANGED <<out, i>>
                        ELSE /\ dpc' = "createStart"
                             /\ UNCHANGED <<out, i, dpErr>>
    /\ UNCHANGED <<cfg, podList, listErr, pods, podName, pod, dresult, clock, copies,
                   runningCopies, invocation, listLog, pollObs, lastPoll, sleeps,
                   launches,
                   waits>>
    /\ UNCHANGED copyMadeFor
    /\ UNCHANGED svars

\* lines 80-92 and 97: one pass of the polling loop up to the Sleep, or the
\* end of the loop
debugPod_Poll ==
    /\ dpc = "poll"
    /\ LET pN == debuggerContainerName(podName) IN
       IF MayPoll(i)
         THEN /\ getLog' = Append(getLog, pN)
              /\ lastPoll' = clock
              /\ \E o \in GetOutcomes(pN), appRunning \in BOOLEAN :
                    IF o # "ok"
                      THEN /\ dpErr' = "failed to get debug pod copy"
                           /\ pollObs' = Append(pollObs, o)
                           /\ dpc' = "debugReturn"
                           /\ UNCHANGED <<pod, out>>
                      ELSE /\ pod' = CopySnapshot(pN, appRunning)
                           /\ pollObs' = Append(pollObs,
                                  IF DebuggerReportsRunning(pod') THEN "running"
                                  ELSE "notrunning")
                           /\ dpErr' = dpErr
                           /\ IF ContainerIsRunning(pod')
                                THEN /\ out' = out \cup {"Container is running. Attaching..."}
                                     /\ dpc' = "attachStart"
                                ELSE /\ out' = out
                                     /\ dpc' = "sleep"
         ELSE /\ dpErr' = "container did not start within the expected time"
              /\ dpc' = "debugReturn"
              /\ UNCHANGED <<getLog, lastPoll, pollObs, pod, out>>
    /\ UNCHANGED <<cfg, podList, listErr, pods, podName, i, dresult, clock, copies,
                   runningCopies, invocation, listLog, sleeps, launches,
                   copyLookup, waits>>
    /\ UNCHANGED <<copyMadeFor, lookupSawMade>>
    /\ UNCHANGED svars

\* lines 93 and 80: the Sleep that ends a pass, and i++
debugPod_Sleep ==
    /\ dpc = "sleep"
    /\ \E d \in SleepTimes : clock' = clock + d
    /\ sleeps' = sleeps + 1
    /\ i' = i + 1
    /\ dpc' = "poll"
    /\ UNCHANGED <<cfg, podList, listErr, pods, podName, pod, dpErr, dresult, copies,
                   runningCopies, invocation, listLog, getLog, pollObs, lastPoll,
                   launches, out,
                   copyLookup, waits>>
    /\ UNCHANGED <<copyMadeFor, lookupSawMade>>
    /\ UNCHANGED svars

\* lines 102-110: direct mode, the lookup of the pod and the advisory warning
debugPod_GetPod ==
    /\ dpc = "getPod"
    /\ getLog' = Append(getLog, <<podName>>)
    /\ \/ /\ dpErr' = "failed to get pod"
          /\ dpc' = "debugReturn"
          /\ UNCHANGED <<pod, out>>
       \/ /\ \E n \in 0..MaxEphemeral :
                pod' = [found |-> TRUE, EphemeralContainers |-> n,
                        ContainerStatuses |-> <<>>]
          /\ out' = IF HasEphemeralContainers(pod')
                      THEN out \cup {"already has terminated debug containers"}
                      ELSE out
          /\ dpc' = "createStart"
          /\ dpErr' = dpErr
    /\ UNCHANGED <<cfg, podList, listErr, pods, podName, i, dresult, clock, copies,
                   runningCopies, invocation, listLog, pollObs, lastPoll, sleeps,
                   launches,
                   copyLookup, waits>>
    /\ UNCHANGED <<copyMadeFor, lookupSawMade>>
    /\ UNCHANGED svars

(***************************************************************************)
(* package debug: attachToExistingDebugContainer                           *)
(***************************************************************************)
Launch(kind, target, copyTo, started) ==
    [kind |-> kind, target |-> target, copyTo |-> copyTo, started |-> started,
     polls |-> Len(pollObs), sleeps |-> sleeps]

\* lines 117-138: kubectl attach is started
attachToExistingDebugContainer_Start ==
    /\ dpc = "attachStart"
    /\ \E started \in BOOLEAN :
        /\ launches' = Append(launches,
              Launch("attach", debuggerContainerName(podName), <<>>, started))
        /\ IF started
             THEN /\ out' = out \cup {"Attached to pod"}
                  /\ dpc' = "attachWait"
                  /\ dpErr' = dpErr
             ELSE /\ dpErr' = "failed to start attach command"
                  /\ dpc' = "debugReturn"
                  /\ out' = out
    /\ UNCHANGED <<cfg, podList, listErr, pods, podName, i, pod, dresult, clock,
                   copies, runningCopies, invocation, listLog, getLog, pollObs,
                   lastPoll, sleeps,
                   copyLookup, waits>>
    /\ UNCHANGED <<copyMadeFor, lookupSawMade>>
    /\ UNCHANGED svars

\* lines 140-144: every error of Wait is an error of the attach
attachToExistingDebugContainer_Wait ==
    /\ dpc = "attachWait"
    /\ \E w \in WaitOutcomes :
        /\ waits' = Append(waits, w)
        /\ dpErr' = IF Success(w) THEN NoErr ELSE "attach command failed"
    /\ dpc' = "debugReturn"
    /\ UNCHANGED <<cfg, podList, listErr, pods, podName, i, pod, dresult, clock,
                   copies, runningCopies, invocation, listLog, getLog, pollObs,
                   lastPoll, sleeps, launches, out,
                   copyLookup>>
    /\ UNCHANGED <<copyMadeFor, lookupSawMade>>
    /\ UNCHANGED svars

(***************************************************************************)
(* package debug: createDebugPod                                           *)
(***************************************************************************)
\* variant: the copy is named after the debugger container
CopyToArg_other(name) ==
    IF cfg.CopyPod THEN <<name, "-", debuggerContainerDefaultName>> ELSE <<>>

\* lines 164-172: --copy-to <copy name> in copy mode
CopyToArg(name) == IF cfg.CopyPod THEN debuggerContainerName(name) ELSE <<>>

\* line 191
IsInteractiveCancel(w) == Contains(WaitErrorText(w), <<"exit status ", "1">>)

\* lines 148-188: kubectl debug is started
createDebugPod_Start ==
    /\ dpc = "createStart"
    /\ \E started \in BOOLEAN :
        /\ launches' = Append(launches,
              Launch("create", <<podName>>, CopyToArg(podName), started))
        /\ IF started
             THEN /\ out' = out \cup {IF cfg.CopyPod THEN "Debugging pod copy created"
                                      ELSE "Debugging container created..."}
                  /\ dpc' = "createWait"
                  /\ dpErr' = dpErr
             ELSE /\ dpErr' = "failed to start debug command"
                  /\ dpc' = "debugReturn"
                  /\ out' = out
    /\ UNCHANGED <<cfg, podList, listErr, pods, podName, i, pod, dresult, clock,
                   copies, runningCopies, invocation, listLog, getLog, pollObs,
                   lastPoll, sleeps,
                   copyLookup, waits>>
    /\ UNCHANGED <<copyMadeFor, lookupSawMade>>
    /\ UNCHANGED svars

\* lines 190-203: kubectl debug ends; with --copy-to it has created the copy
\* when it ends with status 0, and may have created it otherwise
createDebugPod_Wait ==
    /\ dpc = "createWait"
    /\ \E w \in WaitOutcomes, created \in BOOLEAN :
        /\ waits' = Append(waits, w)
        /\ copies' = IF CopyToArg(podName) # <<>> /\ (Success(w) \/ created)
                       THEN copies \cup {CopyToArg(podName)}
                       ELSE copies
        /\ copyMadeFor' = IF CopyToArg(podName) # <<>> /\ (Success(w) \/ created)
                            THEN copyMadeFor \cup {podName}
                            ELSE copyMadeFor
        /\ IF Success(w)
             THEN /\ dpErr' = NoErr
                  /\ out' = IF cfg.CopyPod
                              THEN out \cup {"Run 'nais debug -cp' to attach"}
                              ELSE out
             ELSE IF IsInteractiveCancel(w)
                    THEN /\ dpErr' = NoErr
                         /\ out' = out \cup {"Debugging container exited"}
                    ELSE /\ dpErr' = "debug command failed"
                         /\ out' = out
    /\ dpc' = "debugReturn"
    /\ UNCHANGED <<cfg, podList, listErr, pods, podName, i, pod, dresult, clock,
                   runningCopies, invocation, listLog, getLog, pollObs, lastPoll,
                   sleeps, launches,
                   copyLookup>>
    /\ UNCHANGED lookupSawMade
    /\ UNCHANGED svars

(***************************************************************************)
(* The command is run again: a new process, the same cluster               *)
(***************************************************************************)
Debug_Invoke ==
    /\ dpc = "done"
    /\ invocation < MaxInvocations
    /\ invocation' = invocation + 1
    /\ cfg' \in [CopyPod : BOOLEAN, ByPod : BOOLEAN]
    /\ dpc' = "listPrimary"
    /\ podList' = [isNil |-> TRUE, Items |-> <<>>]
    /\ listErr' = FALSE
    /\ pods' = <<>>
    /\ podName' = ""
    /\ i' = 0
    /\ pod' = NoPod
    /\ dpErr' = NoErr
    /\ dresult' = "none"
    /\ listLog' = <<>>
    /\ getLog' = <<>>
    /\ pollObs' = <<>>
    /\ lastPoll' = 0
    /\ sleeps' = 0
    /\ launches' = <<>>
    /\ copyLookup' = "none"
    /\ waits' = <<>>
    /\ out' = {}
    /\ clock' = 0
    /\ lookupSawMade' = FALSE
    /\ UNCHANGED <<copies, runningCopies, copyMadeFor>>
    /\ UNCHANGED svars

NextDebug ==
    \/ getPodsForWorkload_ListPrimary
    \/ getPodsForWorkload_ListFallback
    \/ Debug_GetPods
    \/ Debug_SelectPod
    \/ debugPod_GetCopy
    \/ debugPod_Poll
    \/ debugPod_Sleep
    \/ debugPod_GetPod
    \/ attachToExistingDebugContainer_Start
    \/ attachToExistingDebugContainer_Wait
    \/ createDebugPod_Start
    \/ createDebugPod_Wait
    \/ Debug_Return
    \/ Debug_Invoke
    \/ Env_ContainerStarts
    \/ Env_CopyRemoved

SpecDebug == InitDebug /\ [][NextDebug]_vars

(***************************************************************************)
(* package migrate: Migrator.Setup                                         *)
(***************************************************************************)
MarkerKeys == [app : AppNames, ns : Namespaces]

InitSetup ==
    /\ scfg \in [AppName : AppNames, Namespace : Namespaces, wait : BOOLEAN]
    /\ SetupLocals
    /\ markers \in {ms \in SUBSET MarkerKeys : Cardinality(ms) <= MaxMarkers}
    /\ bindings = {}
    /\ jobs = {}
    /\ sinvocation = 1
    /\ DebugIdle

\* lines 35-38: the ConfigMaps of the namespace labelled with the app name
ListMarkers == {m \in markers : m.ns = scfg.Namespace /\ m.app = scfg.AppName}

\* a variant of MarkerExists that lets an existing marker pass
MarkerExists_never(items) == FALSE

\* line 44
MarkerExists(items) == Cardinality(items) > 0

Call(op, ok) == [op |-> op, ok |-> ok]

\* lines 34-46
Setup_ListMarkers ==
    /\ spc = "start"
    /\ \E ok \in BOOLEAN :
        /\ calls' = Append(calls, Call("List", ok))
        /\ IF ~ok
             THEN serr' = <<"list error">> /\ spc' = "failed"
             ELSE IF MarkerExists(ListMarkers)
                    THEN /\ serr' = <<"migration config already exists for this application">>
                         /\ spc' = "failed"
                    ELSE /\ serr' = serr
                         /\ spc' = "resolveTarget"
    /\ UNCHANGED <<scfg, scluster, Target, Source, gcpProjectId, ptermFailed, printed,
                   sinvocation, spinner>>
    /\ UNCHANGED repeatOfSuccess
    /\ UNCHANGED dvars

\* lines 48-53: Target.Resolve; its error is returned as it is
Setup_ResolveTarget ==
    /\ spc = "resolveTarget"
    /\ \E ok \in BOOLEAN, name \in InstanceNames :
        /\ calls' = Append(calls, Call("Target.Resolve", ok))
        /\ IF ok
             THEN /\ Target' = name
                  /\ printed' = printed \o <<<<"Resolving target instance config">>,
                                             <<"Resolved target:\n", name>>>>
                  /\ spc' = "resolveSource"
                  /\ serr' = serr
             ELSE /\ Target' = Target
                  /\ printed' = Append(printed, <<"Resolving target instance config">>)
                  /\ spc' = "failed"
                  /\ serr' = <<"resolve error">>
    /\ UNCHANGED <<scfg, scluster, Source, gcpProjectId, ptermFailed, sinvocation,
                   spinner>>
    /\ UNCHANGED repeatOfSuccess
    /\ UNCHANGED dvars

\* lines 55-60: Source.Resolve; its error is returned as it is
Setup_ResolveSource ==
    /\ spc = "resolveSource"
    /\ \E ok \in BOOLEAN, name \in InstanceNames :
        /\ calls' = Append(calls, Call("Source.Resolve", ok))
        /\ IF ok
             THEN /\ Source' = name
                  /\ printed' = printed \o <<<<"Resolving source instance config">>,
                                             <<"Resolved source:\n", name>>>>
                  /\ spc' = "validate"
                  /\ serr' = serr
             ELSE /\ Source' = Source
                  /\ printed' = Append(printed, <<"Resolving source instance config">>)
                  /\ spc' = "failed"
                  /\ serr' = <<"resolve error">>
    /\ UNCHANGED <<scfg, scluster, Target, gcpProjectId, ptermFailed, sinvocation,
                   spinner>>
    /\ UNCHANGED repeatOfSuccess
    /\ UNCHANGED dvars

\* lines 62-74
Setup_Validate ==
    /\ spc = "validate"
    /\ serr' = ValidateInstanceNames(Source, Target)
    /\ spc' = IF serr' # <<>> THEN "failed" ELSE "lookupProject"
    /\ UNCHANGED <<scfg, scluster, Target, Source, gcpProjectId, ptermFailed, calls,
                   printed, sinvocation, spinner>>
    /\ UNCHANGED repeatOfSuccess
    /\ UNCHANGED dvars

\* lines 76-80: LookupGcpProjectId; its error is wrapped
Setup_LookupGcpProjectId ==
    /\ spc = "lookupProject"
    /\ printed' = Append(printed, <<"Looking up GCP project ID">>)
    /\ \E ok \in BOOLEAN, id \in ProjectIds :
        /\ calls' = Append(calls, Call("LookupGcpProjectId", ok))
        /\ IF ok
             THEN /\ gcpProjectId' = id
                  /\ spc' = "confirm"
                  /\ serr' = serr
             ELSE /\ gcpProjectId' = gcpProjectId
                  /\ spc' = "failed"
                  /\ serr' = <<"failed to lookup GCP project ID: ", "lookup error">>
    /\ UNCHANGED <<scfg, scluster, Target, Source, ptermFailed, sinvocation, spinner>>
    /\ UNCHANGED repeatOfSuccess
    /\ UNCHANGED dvars

\* lines 82-89: the configuration is printed and the user is asked
Setup_Confirm ==
    /\ spc = "confirm"
    /\ printed' = printed \o
          <<<<"printConfig", Source, Target>>,
            <<"\nThis will create a new database instance and start replication of data from the source instance.\n">>>>
    /\ \E input \in Inputs :
        /\ calls' = Append(calls, Call("confirmContinue", confirmContinue(input) = <<>>))
        /\ serr' = confirmContinue(input)
        /\ spc' = IF confirmContinue(input) # <<>> THEN "failed" ELSE "waitBranch"
    /\ UNCHANGED <<scfg, scluster, Target, Source, gcpProjectId, ptermFailed,
                   sinvocation, spinner>>
    /\ UNCHANGED repeatOfSuccess
    /\ UNCHANGED dvars

\* a variant of CreatedObjects in which the step of lines 91-108 is not
\* commented out
CreatedObjects_enabled == {[app |-> scfg.AppName, ns |-> scfg.Namespace]}

\* lines 91-108: the creation of the ConfigMap, of the RoleBinding and of the
\* job is commented out: Setup creates no object
CreatedObjects == {}

\* lines 91-112 and 128-142: nothing is created; without wait, on to the
\* message; with wait, doSpinner is called: it starts the goroutine and logs
\* that setup has started
Setup_WaitBranch ==
    /\ spc = "waitBranch"
    /\ IF scfg.wait
         THEN /\ calls' = Append(calls, Call("doSpinner", TRUE))
              /\ gpc' = "loop"
              /\ gi' = 0
              /\ logCount' = logCount + 1
              /\ lastLog' = [severity |-> "info", text |-> <<"Migration setup has started">>]
              /\ spc' = "startSpinner"
         ELSE /\ spc' = "report"
              /\ UNCHANGED <<calls, gpc, gi, logCount, lastLog>>
    /\ markers' = markers \cup CreatedObjects
    /\ bindings' = bindings \cup CreatedObjects
    /\ jobs' = jobs \cup CreatedObjects
    /\ UNCHANGED <<scfg, Target, Source, gcpProjectId, ptermFailed, serr,
                   printed, sinvocation, delay, closed, prevLog, spinnerText>>
    /\ UNCHANGED repeatOfSuccess
    /\ UNCHANGED dvars

\* lines 120-122: the arguments of the completion message
cloudConsoleUrl ==
    Sprintf(CloudConsoleUrlFormat, <<<<Source>>, <<Target>>, <<gcpProjectId>>>>)

\* a variant of SetupSuccessArgs with the last two arguments exchanged
SetupSuccessArgs_exchanged ==
    <<kubectlLabelSelector(scfg.AppName, CommandSetup), <<scfg.Namespace>>,
      <<"jobName">>, <<scfg.Namespace>>, cloudConsoleUrl,
      <<scfg.AppName>>, <<Target>>, <<scfg.Namespace>>>>

SetupSuccessArgs ==
    <<kubectlLabelSelector(scfg.AppName, CommandSetup), <<scfg.Namespace>>,
      <<"jobName">>, <<scfg.Namespace>>, cloudConsoleUrl,
      <<scfg.AppName>>, <<scfg.Namespace>>, <<Target>>>>

\* a variant of PrintsMessage that ignores the failure of the progress mechanism
PrintsMessage_waitOnly == ~scfg.wait

\* line 119
PrintsMessage == ~scfg.wait \/ ptermFailed

\* lines 119-124: the completion message, and Setup returns nil
Setup_Report ==
    /\ spc = "report"
    /\ printed' = IF PrintsMessage
                    THEN Append(printed, Sprintf(SetupSuccessMessage, SetupSuccessArgs))
                    ELSE printed
    /\ serr' = <<>>
    /\ spc' = "done"
    /\ UNCHANGED <<scfg, scluster, Target, Source, gcpProjectId, ptermFailed, calls,
                   sinvocation, spinner>>
    /\ UNCHANGED repeatOfSuccess
    /\ UNCHANGED dvars

(***************************************************************************)
(* package migrate: Migrator.doSpinner                                     *)
(***************************************************************************)
\* lines 159-166
LogSeverity(n) == CASE n = 1 -> "warn" [] n = 2 -> "error" [] OTHER -> "info"

\* lines 143-149 and 113-117: the spinner is started; if that fails doSpinner
\* returns the error, which Setup prints, setting ptermFailed
doSpinner_StartSpinner ==
    /\ spc = "startSpinner"
    /\ \E ok \in BOOLEAN :
        IF ok
          THEN /\ spinnerText' = <<"Setting up migration">>
               /\ spc' = "startMulti"
               /\ UNCHANGED <<printed, ptermFailed>>
          ELSE /\ printed' = Append(printed,
                      <<"Failed to start spinner:", "failed to start spinner: ", "start error">>)
               /\ ptermFailed' = TRUE
               /\ spc' = "report"
               /\ UNCHANGED spinnerText
    /\ UNCHANGED <<scfg, scluster, Target, Source, gcpProjectId, serr, calls,
                   sinvocation, gpc, gi, delay, closed, prevLog, logCount, lastLog>>
    /\ UNCHANGED repeatOfSuccess
    /\ UNCHANGED dvars

\* lines 151-157 and 113-117: the multi printer is started
doSpinner_StartMulti ==
    /\ spc = "startMulti"
    /\ \E ok \in BOOLEAN :
        IF ok
          THEN /\ prevLog' = <<>>
               /\ spc' = "range"
               /\ UNCHANGED <<printed, ptermFailed>>
          ELSE /\ printed' = Append(printed,
                      <<"Failed to start spinner:", "failed to start multi printer: ", "start error">>)
               /\ ptermFailed' = TRUE
               /\ spc' = "report"
               /\ UNCHANGED prevLog
    /\ UNCHANGED <<scfg, scluster, Target, Source, gcpProjectId, serr, calls,
                   sinvocation, gpc, gi, delay, closed, spinnerText, logCount, lastLog>>
    /\ UNCHANGED repeatOfSuccess
    /\ UNCHANGED dvars

\* a variant of LoopContinues that runs one iteration more
LoopContinues_more(n) == n <= spinnerIterations

\* line 133: the condition of the goroutine's loop
LoopContinues(n) == n < spinnerIterations

\* lines 133-135 and 138: the goroutine draws a delay and sleeps, or closes
\* the channel after the last iteration
goroutine_Iterate ==
    /\ gpc = "loop"
    /\ IF LoopContinues(gi)
         THEN /\ \E d \in Delays : delay' = d
              /\ gpc' = "send"
              /\ closed' = closed
         ELSE /\ closed' = TRUE
              /\ gpc' = "exited"
              /\ delay' = delay
    /\ UNCHANGED <<scfg, spc, scluster, Target, Source, gcpProjectId, ptermFailed, serr,
                   calls, printed, sinvocation, gi, prevLog, spinnerText, logCount,
                   lastLog>>
    /\ UNCHANGED repeatOfSuccess
    /\ UNCHANGED dvars

\* lines 136 and 158-169: the send on the unbuffered channel meets the receive
\* of the range loop, whose body logs prevLog and shows the line received
doSpinner_Receive ==
    /\ spc = "range"
    /\ gpc = "send"
    /\ LET logMsg == StatusLine(delay) IN
       /\ \E n \in Severities :
            lastLog' = [severity |-> LogSeverity(n), text |-> prevLog]
       /\ logCount' = logCount + 1
       /\ spinnerText' = logMsg
       /\ prevLog' = logMsg
    /\ gi' = gi + 1
    /\ gpc' = "loop"
    /\ UNCHANGED <<scfg, spc, scluster, Target, Source, gcpProjectId, ptermFailed, serr,
                   calls, printed, sinvocation, delay, closed>>
    /\ UNCHANGED repeatOfSuccess
    /\ UNCHANGED dvars

\* lines 158, 170-171 and 119-124: the channel is closed, doSpinner returns nil,
\* and so does Setup, without the message
doSpinner_RangeEnds ==
    /\ spc = "range"
    /\ closed
    /\ spinnerText' = <<"Migration setup complete">>
    /\ serr' = <<>>
    /\ spc' = "done"
    /\ UNCHANGED <<scfg, scluster, Target, Source, gcpProjectId, ptermFailed, calls,
                   printed, sinvocation, gpc, gi, delay, closed, prevLog, logCount,
                   lastLog>>
    /\ UNCHANGED repeatOfSuccess
    /\ UNCHANGED dvars

(***************************************************************************)
(* The command is run again: a new process, the same cluster               *)
(***************************************************************************)
Setup_Invoke ==
    /\ spc \in {"done", "failed"}
    /\ sinvocation < MaxSetups
    /\ sinvocation' = sinvocation + 1
    /\ scfg' \in [AppName : AppNames, Namespace : Namespaces, wait : BOOLEAN]
    /\ spc' = "start"
    /\ Target' = ""
    /\ Source' = ""
    /\ gcpProjectId' = ""
    /\ ptermFailed' = FALSE
    /\ serr' = <<>>
    /\ calls' = <<>>
    /\ printed' = <<>>
    /\ gpc' = "none"
    /\ gi' = 0
    /\ delay' = 0
    /\ closed' = FALSE
    /\ prevLog' = <<>>
    /\ spinnerText' = <<>>
    /\ logCount' = 0
    /\ lastLog' = NoLog
    /\ repeatOfSuccess' = (/\ spc = "done"
                            /\ scfg'.AppName = scfg.AppName
                            /\ scfg'.Namespace = scfg.Namespace)
    /\ UNCHANGED scluster
    /\ UNCHANGED dvars

NextSetup ==
    \/ Setup_ListMarkers
    \/ Setup_ResolveTarget
    \/ Setup_ResolveSource
    \/ Setup_Validate
    \/ Setup_LookupGcpProjectId
    \/ Setup_Confirm
    \/ Setup_WaitBranch
    \/ Setup_Report
    \/ doSpinner_StartSpinner
    \/ doSpinner_StartMulti
    \/ goroutine_Iterate
    \/ doSpinner_Receive
    \/ doSpinner_RangeEnds
    \/ Setup_Invoke

SpecSetup == InitSetup /\ [][NextSetup]_vars

\* one run of the command: the steps of Setup and of doSpinner
NextSetupOnce ==
    \/ Setup_ListMarkers
    \/ Setup_ResolveTarget
    \/ Setup_ResolveSource
    \/ Setup_Validate
    \/ Setup_LookupGcpProjectId
    \/ Setup_Confirm
    \/ Setup_WaitBranch
    \/ Setup_Report
    \/ doSpinner_StartSpinner
    \/ doSpinner_StartMulti
    \/ goroutine_Iterate
    \/ doSpinner_Receive
    \/ doSpinner_RangeEnds

\* one run of the command in which the goroutine and the main flow of
\* doSpinner are both scheduled: a step of either that stays possible is
\* eventually taken
SpecSetupFair ==
    /\ InitSetup
    /\ [][NextSetupOnce]_vars
    /\ WF_vars(goroutine_Iterate)
    /\ WF_vars(doSpinner_Receive)
    /\ WF_vars(doSpinner_RangeEnds)
    /\ WF_vars(doSpinner_StartSpinner)
    /\ WF_vars(doSpinner_StartMulti)
    /\ WF_vars(Setup_Report)

(***************************************************************************)
(* Properties of the debug command                                         *)
(***************************************************************************)
TimeoutText == "container did not start within the expected time"

WarningText == "already has terminated debug containers"

\* debugPod has returned
DebugPodReturned == dpc \in {"debugReturn", "done"} /\ podName # ""

\* the index of the first poll that saw the debugger Running (0: none did)
FirstRunning ==
    IF \E k \in 1..Len(pollObs) : pollObs[k] = "running"
      THEN CHOOSE k \in 1..Len(pollObs) :
              /\ pollObs[k] = "running"
              /\ \A j \in 1..(k - 1) : pollObs[j] # "running"
      ELSE 0

EmptyOk(r) == ~r.err /\ ~r.isNil /\ r.Items = <<>>

\* C1: whenever debugPod fails (poll exhausted, a failed lookup, a process that
\* cannot be started, a non-cancel non-zero exit), Debug returns a non-nil error
C1_FatalErrorReturned ==
    (dpc = "done" /\ dpErr # NoErr) => dresult = "err"

\* C2: copy mode, the copy exists and every poll sees the debugger not Running:
\* debugPod makes exactly 6 polls and ends with the timeout error without
\* having started a process; and two polls are at least 5 seconds apart
C2_TimeoutAfterSixPolls ==
    /\ [](  (/\ cfg.CopyPod
             /\ DebugPodReturned
             /\ copyLookup = "ok"
             /\ \A k \in 1..Len(pollObs) : pollObs[k] = "notrunning")
          => (/\ Len(pollObs) = 6
              /\ dpErr = TimeoutText
              /\ launches = <<>>))
    /\ [][ (Len(pollObs) >= 1 /\ Len(pollObs') = Len(pollObs) + 1)
           => clock' - lastPoll >= 5 ]_vars

C2_Witness ==
    /\ cfg.CopyPod
    /\ dpc = "done"
    /\ copyLookup = "ok"
    /\ pollObs = <<"notrunning", "notrunning", "notrunning",
                   "notrunning", "notrunning", "notrunning">>
    /\ dpErr = TimeoutText

\* C3: copy mode, the copy exists and poll k is the first to see the debugger
\* Running: exactly one attach is started, right at poll k (k polls, k - 1
\* sleeps, nothing after), no create, and the timeout is not reported
C3_AttachAtFirstRunningPoll ==
    (/\ cfg.CopyPod
     /\ copyLookup = "ok"
     /\ FirstRunning > 0
     /\ dpc \in {"attachWait", "debugReturn", "done"})
    => (/\ FirstRunning \in 1..6
        /\ Len(pollObs) = FirstRunning
        /\ sleeps = FirstRunning - 1
        /\ Len(launches) = 1
        /\ launches[1].kind = "attach"
        /\ launches[1].target = debuggerContainerName(podName)
        /\ launches[1].polls = FirstRunning
        /\ launches[1].sleeps = FirstRunning - 1
        /\ dpErr # TimeoutText)

C3_Witness ==
    /\ cfg.CopyPod
    /\ dpc = "done"
    /\ pollObs = <<"notrunning", "notrunning", "running">>
    /\ Len(launches) = 1
    /\ launches[1].kind = "attach"
    /\ launches[1].started
    /\ dpErr = NoErr

\* C4: both List requests succeed with no pod: Debug returns nil, and has
\* started no process and fetched no pod
C4_ZeroPodsIsCleanNoOp ==
    (/\ dpc = "done"
     /\ Len(listLog) = 2
     /\ EmptyOk(listLog[1].result)
     /\ EmptyOk(listLog[2].result))
    => (/\ dresult = "nil"
        /\ launches = <<>>
        /\ getLog = <<>>)

C4_Witness ==
    /\ dpc = "done"
    /\ Len(listLog) = 2
    /\ listLog[1].selector = PrimarySelector
    /\ listLog[2].selector = FallbackSelector
    /\ EmptyOk(listLog[1].result)
    /\ EmptyOk(listLog[2].result)
    /\ dresult = "nil"

\* C5: when the primary selector returns a pod, the fallback selector is never
\* queried and getPodsForWorkload returns the primary result
C5_PrimaryResultStops ==
    (/\ Len(listLog) >= 1
     /\ ~listLog[1].result.err
     /\ Len(listLog[1].result.Items) > 0)
    => (/\ Len(listLog) = 1
        /\ listLog[1].selector = PrimarySelector
        /\ dpc = "getPodsReturn" => (~listErr /\ podList.Items = listLog[1].result.Items)
        /\ dpc \notin {"listPrimary", "listFallback", "getPodsReturn"}
              => pods = listLog[1].result.Items)

C5_Witness ==
    /\ dpc = "select"
    /\ Len(listLog) = 1
    /\ pods = <<"pod-b", "pod-a">>

\* C6 as stated: direct mode, for every selected pod exactly one create is
\* started and nothing else, and the warning is printed iff the pod has an
\* ephemeral container
C6_AlwaysCreates ==
    (~cfg.CopyPod /\ DebugPodReturned)
    => (/\ Len(launches) = 1
        /\ launches[1].kind = "create"
        /\ pollObs = <<>>
        /\ (WarningText \in out <=> pod.EphemeralContainers > 0))

\* C6 amended: direct mode, for every selected pod whose lookup succeeds,
\* exactly one create (of that pod, without --copy-to) is started, no attach,
\* no poll, no sleep; the warning is printed iff the pod has an ephemeral
\* container; and debugPod fails only if the create could not be started or
\* its Wait returned an error
C6_CreatesWhenPodFetched ==
    (~cfg.CopyPod /\ DebugPodReturned /\ pod.found)
    => (/\ Len(launches) = 1
        /\ launches[1].kind = "create"
        /\ launches[1].target = <<podName>>
        /\ launches[1].copyTo = <<>>
        /\ pollObs = <<>>
        /\ sleeps = 0
        /\ (WarningText \in out <=> pod.EphemeralContainers > 0)
        /\ dpErr # NoErr => (~launches[1].started \/ ~Success(waits[1])))

C6_Witness ==
    /\ ~cfg.CopyPod
    /\ dpc = "done"
    /\ pod.found
    /\ pod.EphemeralContainers = 2
    /\ WarningText \in out
    /\ Len(launches) = 1
    /\ launches[1].kind = "create"
    /\ launches[1].started
    /\ dpErr = NoErr

(***************************************************************************)
(* Properties of migrate setup                                             *)
(***************************************************************************)
AlreadyExistsError == <<"migration config already exists for this application">>

\* both instance configs were resolved, and the names have been checked
NamesChecked ==
    /\ Len(calls) >= 3
    /\ calls[3] = Call("Source.Resolve", TRUE)
    /\ spc # "validate"

ValidationFailedWith(text) ==
    /\ spc = "failed"
    /\ serr = <<text>>
    /\ Len(calls) = 3
    /\ \A k \in 1..Len(printed) : printed[k] # <<"Looking up GCP project ID">>

\* C7: the marker query returns a marker of (AppName, Namespace): Setup fails
\* with the already-exists error after that one call: nothing is resolved,
\* looked up, asked, printed or logged, and the goroutine is not started
C7_ExistingMarkerStopsSetup ==
    (/\ Len(calls) >= 1
     /\ calls[1] = Call("List", TRUE)
     /\ ListMarkers # {})
    => (/\ spc = "failed"
        /\ serr = AlreadyExistsError
        /\ calls = <<Call("List", TRUE)>>
        /\ printed = <<>>
        /\ gpc = "none"
        /\ logCount = 0)

C7_Witness ==
    /\ spc = "failed"
    /\ serr = AlreadyExistsError
    /\ [app |-> scfg.AppName, ns |-> scfg.Namespace] \in markers

\* C8: with both configs resolved, an empty source name, else an empty target
\* name, else equal names make Setup fail with the message of that check,
\* before the project is looked up and before the prompt
C8_ValidationBeforePrompt ==
    NamesChecked =>
        /\ Source = "" => ValidationFailedWith("source instance name is empty")
        /\ (Source # "" /\ Target = "")
              => ValidationFailedWith("target instance name is required")
        /\ (Source # "" /\ Target # "" /\ Source = Target)
              => ValidationFailedWith("source and target instance names cannot be the same")

C8_Witness ==
    /\ NamesChecked
    /\ Source = "db-old"
    /\ Target = "db-old"
    /\ spc = "failed"
    /\ serr = <<"source and target instance names cannot be the same">>

\* the phase of Setup at each position of the code
Phase ==
    CASE spc = "start" -> "Idle"
      [] spc \in {"resolveTarget", "resolveSource"} -> "PreconditionChecked"
      [] spc = "validate" -> "Resolved"
      [] spc \in {"lookupProject", "confirm"} -> "Validated"
      [] spc \in {"waitBranch", "startSpinner", "startMulti"} -> "Confirmed"
      [] spc = "range" -> "Observing"
      [] spc = "report" -> "Reported"
      [] spc = "done" -> "Done"
      [] OTHER -> "Failed"

PhaseSteps ==
    {<<"Idle", "PreconditionChecked">>, <<"PreconditionChecked", "Resolved">>,
     <<"Resolved", "Validated">>, <<"Validated", "Confirmed">>,
     <<"Confirmed", "Observing">>, <<"Confirmed", "Reported">>,
     <<"Observing", "Done">>, <<"Reported", "Done">>}

FailingPhases == {"Idle", "PreconditionChecked", "Resolved", "Validated"}

\* C9: within one execution Setup changes phase only along Idle,
\* PreconditionChecked, Resolved, Validated, Confirmed, Observing or Reported,
\* Done, or to Failed; Failed is final; and after a failed resolution or with
\* names that do not pass the checks the phase is never past Resolved
C9_PhaseOrder ==
    /\ [][ (sinvocation' = sinvocation /\ Phase' # Phase)
           => \/ <<Phase, Phase'>> \in PhaseSteps
              \/ (Phase \in FailingPhases /\ Phase' = "Failed") ]_vars
    /\ []( (\E k \in 1..Len(calls) : ~calls[k].ok) => Phase = "Failed" )
    /\ []( Phase \in {"Validated", "Confirmed", "Observing", "Reported", "Done"}
           => (Source # "" /\ Target # "" /\ Source # Target) )

C9_Witness ==
    /\ Phase = "Done"
    /\ scfg.wait
    /\ gi = 50
    /\ ~ptermFailed

\* the kube contexts a user can name on the command line
Clusters == {"dev-gcp", "prod-gcp"}

\* the completion message with the given job name and promote arguments
CompletionMessage(job, a1, a2, a3) ==
    <<SetupSuccessMessage[1]>>
    \o kubectlLabelSelector(scfg.AppName, "setup")
    \o <<" -n ", scfg.Namespace,
         SetupSuccessMessage[5], job, " -n ", scfg.Namespace,
         SetupSuccessMessage[9],
         "https://console.cloud.google.com/dbmigration/migrations/locations/europe-north1/instances/",
         Source, "-", Target, "?project=", gcpProjectId,
         SetupSuccessMessage[11], a1, " ", a2, " ", a3,
         SetupSuccessMessage[17]>>

IsCompletionMessage(text) == text # <<>> /\ text[1] = SetupSuccessMessage[1]

CompletionMessages == {k \in 1..Len(printed) : IsCompletionMessage(printed[k])}

\* C10 as stated: without wait, the message Setup prints holds the log-tail
\* command, the status-check command, the console URL of source, target and
\* project, and the promote command of AppName, cluster and Namespace
C10_PromoteOfAppClusterNamespace ==
    (spc = "done" /\ ~scfg.wait)
    => \E c \in Clusters :
          printed[Len(printed)] = CompletionMessage("jobName", scfg.AppName, c, scfg.Namespace)

\* C10 amended: without wait, Setup prints the message once, as its last
\* output: the log-tail command, the status-check command of the job called
\* jobName, the console URL of source, target and project, and the promote
\* command of AppName, Namespace and the target instance name
C10_PromoteOfAppNamespaceTarget ==
    (spc = "done" /\ ~scfg.wait)
    => /\ Cardinality(CompletionMessages) = 1
       /\ printed[Len(printed)] =
             CompletionMessage("jobName", scfg.AppName, scfg.Namespace, Target)

C10_Witness ==
    /\ spc = "done"
    /\ ~scfg.wait
    /\ scfg.AppName = "app-b"
    /\ scfg.Namespace = "team-a"
    /\ Source = "db-old"
    /\ Target = "db-new"
    /\ CompletionMessages # {}


(***************************************************************************)
(* Properties of the debug command: the copy and the errors                *)
(***************************************************************************)
\* the launches of the current invocation of the given kind
LaunchesOf(kind) == {k \in 1..Len(launches) : launches[k].kind = kind}

\* C11: in copy mode the lookup, every poll, the attach and the --copy-to of
\* the create all use debuggerContainerName(podName); and when an earlier
\* create --copy-to has made the copy of the selected pod and that copy is
\* still in the cluster at the lookup, the lookup does not answer NotFound
\* (it finds the copy unless the request itself fails), no create is started,
\* and, if no Get request fails, the invocation ends with one attach or with
\* the timeout
C11_SameCopyNameEverywhere ==
    /\ cfg.CopyPod =>
        /\ \A k \in 1..Len(getLog) : getLog[k] = debuggerContainerName(podName)
        /\ \A k \in LaunchesOf("attach") :
              launches[k].target = debuggerContainerName(podName)
        /\ \A k \in LaunchesOf("create") :
              launches[k].copyTo = debuggerContainerName(podName)
    /\ (cfg.CopyPod /\ lookupSawMade) =>
        /\ copyLookup \in {"ok", "error"}
        /\ LaunchesOf("create") = {}
        /\ (/\ dpc \in {"debugReturn", "done"}
            /\ copyLookup = "ok"
            /\ \A k \in 1..Len(pollObs) : pollObs[k] \in {"running", "notrunning"})
           => \/ Len(launches) = 1 /\ launches[1].kind = "attach"
              \/ launches = <<>> /\ dpErr = TimeoutText

C11_Witness ==
    /\ invocation = 2
    /\ cfg.CopyPod
    /\ lookupSawMade
    /\ copyLookup = "ok"
    /\ dpc = "done"
    /\ Len(launches) = 1
    /\ launches[1].kind = "attach"
    /\ launches[1].started
    /\ dpErr = NoErr


(***************************************************************************)
(* Properties of the progress mechanism                                    *)
(***************************************************************************)
\* the progress mechanism of the current Setup has started and has not failed
ProgressRan == scfg.wait /\ ~ptermFailed

\* C12: with wait and a progress mechanism that starts, the goroutine never
\* sends more than 50 lines; when Setup has returned, 50 lines have been sent
\* and received, the channel is closed and the goroutine has ended; and, the
\* goroutine and the main flow being scheduled fairly, the range loop always
\* ends with Setup returning nil
C12_ProgressLoopBounded ==
    /\ [](gi <= 50)
    /\ []((spc = "done" /\ ProgressRan)
           => (/\ gi = 50
               /\ closed
               /\ gpc = "exited"
               /\ logCount = 50 + 1
               /\ serr = <<>>))
    /\ (spc = "range") ~> (spc = "done" /\ serr = <<>>)

C12_Witness ==
    /\ spc = "done"
    /\ ProgressRan
    /\ gi = 50
    /\ closed
    /\ serr = <<>>


(***************************************************************************)
(* Properties of the debug command: errors                                 *)
(***************************************************************************)
\* the primary List request failed, the client returning an empty list with
\* the error
PrimaryListFailed ==
    /\ Len(listLog) >= 1
    /\ listLog[1].result.err
    /\ ~listLog[1].result.isNil

\* C13 as stated: when the List request with the primary selector fails, no
\* second List request is made and Debug returns the error
C13_PrimaryErrorIsFinal ==
    PrimaryListFailed
    => (/\ Len(listLog) = 1
        /\ dpc = "getPodsReturn" => listErr
        /\ dpc = "done" => dresult = "err"
        /\ launches = <<>>)


\* kubectl debug was started and has ended with the given exit status
CreateExitedWith(status) ==
    /\ DebugPodReturned
    /\ Len(launches) = 1
    /\ launches[1].kind = "create"
    /\ Len(waits) = 1
    /\ waits[1].exited
    /\ waits[1].status = status

\* C14 as stated: on the creation path exit status 1 is a clean end, and
\* every other exit status but 0 makes createDebugPod return an error
C14_OnlyStatusOneIsClean ==
    /\ CreateExitedWith(1) => dpErr = NoErr
    /\ \A status \in ExitStatuses \ {0, 1} :
          CreateExitedWith(status) => dpErr = "debug command failed"


\* C15: copy mode. A lookup that answers NotFound is followed by one create
\* with --copy-to the copy's name, and by no poll and no attach; a lookup that
\* fails otherwise ends debugPod with an error and no process is started; and
\* a poll whose Get fails, NotFound included, is the last poll: debugPod
\* returns its error without a sleep after it and without starting a process
C15_LookupDrivesBranch ==
    (cfg.CopyPod /\ DebugPodReturned) =>
        /\ copyLookup = "notfound" =>
              /\ Len(launches) = 1
              /\ launches[1].kind = "create"
              /\ launches[1].copyTo = debuggerContainerName(podName)
              /\ pollObs = <<>>
              /\ sleeps = 0
              /\ Len(getLog) = 1
        /\ copyLookup = "error" =>
              /\ launches = <<>>
              /\ pollObs = <<>>
              /\ dpErr = "failed to check for existing debug pod copy"
        /\ \A k \in 1..Len(pollObs) :
              pollObs[k] \in {"notfound", "error"} =>
                  /\ k = Len(pollObs)
                  /\ sleeps = k - 1
                  /\ launches = <<>>
                  /\ dpErr = "failed to get debug pod copy"

C15_Witness ==
    /\ cfg.CopyPod
    /\ dpc = "done"
    /\ copyLookup = "ok"
    /\ pollObs = <<"notrunning", "notfound">>
    /\ launches = <<>>
    /\ dpErr = "failed to get debug pod copy"


(***************************************************************************)
(* Properties of the migration setup: resolution, report, cluster          *)
(***************************************************************************)
\* the positions in calls of the calls of op
CallsOf(op) == {k \in 1..Len(calls) : calls[k].op = op}

\* Setup has returned an error right after the failure of op
FailedAt(op) ==
    /\ spc = "failed"
    /\ Len(calls) >= 1
    /\ calls[Len(calls)] = Call(op, FALSE)

\* e is the resolver's error wrapped with a label, as "<label>: %w" gives it
WrappedResolveError(e) == Len(e) = 2 /\ e[2] = "resolve error"

\* C16 as stated: the target is resolved before the source, a failed target
\* resolution leaves the source unresolved, and Setup returns the error of
\* either resolution wrapped with a label
C16_ResolveOrderAndLabel ==
    /\ \A k \in CallsOf("Source.Resolve") :
          \E j \in 1..(k - 1) : calls[j] = Call("Target.Resolve", TRUE)
    /\ FailedAt("Target.Resolve") =>
          /\ CallsOf("Source.Resolve") = {}
          /\ WrappedResolveError(serr)
    /\ FailedAt("Source.Resolve") => WrappedResolveError(serr)


\* Setup has printed that the progress mechanism could not be started
StartFailureReported ==
    \E k \in 1..Len(printed) :
        printed[k] # <<>> /\ printed[k][1] = "Failed to start spinner:"

\* C17: when Setup has got past the confirmation and returned, it has
\* returned nil and has printed the completion message once if wait is false
\* or the progress mechanism failed to start, and not at all otherwise; the
\* message is printed nowhere else, and a failure to start the progress
\* mechanism never makes Setup fail
C17_MessageIffNoProgress ==
    /\ spc = "done" =>
          /\ serr = <<>>
          /\ \E k \in CallsOf("confirmContinue") : calls[k].ok
          /\ Cardinality(CompletionMessages) =
                IF ~scfg.wait \/ StartFailureReported THEN 1 ELSE 0
          /\ (scfg.wait /\ ~StartFailureReported) => (closed /\ gpc = "exited")
    /\ spc # "done" => CompletionMessages = {}
    /\ StartFailureReported => (scfg.wait /\ spc \in {"report", "done"})

C17_Witness ==
    /\ spc = "done"
    /\ scfg.wait
    /\ StartFailureReported
    /\ Cardinality(CompletionMessages) = 1
    /\ serr = <<>>


\* C18 as stated: the range loop logs the line it has just received: after
\* each receive the entry logged last carries the line received last, one
\* entry per line received, so that at the end the 50 lines are all logged
C18_ReceivedLineIsLogged ==
    gi >= 1 =>
        /\ logCount = 1 + gi
        /\ lastLog.text = prevLog
        /\ lastLog.text # <<>>


\* the List request of the current Setup has succeeded
ListSucceeded == Len(calls) >= 1 /\ calls[1] = Call("List", TRUE)

\* C19: no step of Setup, on any path, changes the markers, the bindings or
\* the jobs of the cluster; a Setup that has returned nil leaves no marker of
\* its app and namespace; and a Setup that follows a successful one for the
\* same app and namespace, its List request succeeding, passes the marker
\* precondition
C19_SetupLeavesClusterAlone ==
    /\ [][UNCHANGED scluster]_vars
    /\ [](spc = "done" => ~MarkerExists(ListMarkers))
    /\ []((repeatOfSuccess /\ ListSucceeded)
           => (/\ serr # AlreadyExistsError
               /\ ~(spc = "failed" /\ Len(calls) = 1)))

C19_Witness ==
    /\ sinvocation = 2
    /\ repeatOfSuccess
    /\ ListSucceeded
    /\ spc = "done"
    /\ scfg.wait
    /\ markers # {}


\* C20 as stated: the goroutine of doSpinner is never left blocked on a send:
\* every send it begins is eventually received, so that it goes on to close
\* the channel and end, also when the spinner or the multi printer fails to
\* start
C20_EverySendIsReceived == (gpc = "send") ~> (gpc \in {"loop", "exited"})

====
